---- MODULE Spec2Model ----
(***************************************************************************)
(* QNNClassifier (skqulacs/qnn/classifier.py): the training engine.        *)
(*                                                                         *)
(* Real-valued data is abstracted, integer data is kept:                   *)
(*  - a parameter vector theta is an identifier (a natural number); the    *)
(*    circuit's initial parameters are ThetaInit, the points a scipy       *)
(*    optimizer tries are drawn from 0..MaxTheta, and the k-th iterate of  *)
(*    the Adam loop is AdamUpdate applied k times to the initial one;      *)
(*  - an input matrix is the sequence of its sample numbers with a flag    *)
(*    telling whether MinMaxScaler has transformed it;                     *)
(*  - label matrices, the one-hot matrices, the group sizes and offsets    *)
(*    and every index computed from them are concrete;                     *)
(*  - a cost value is the term that determines it: the parameters and the  *)
(*    inputs the circuit was run on, the flat positions whose -log(p) is   *)
(*    summed, and the divisor; a gradient likewise.                        *)
(* The circuit (LearningCircuit) is an external collaborator: its          *)
(* parameter vector is the variable params, and every call made on it is   *)
(* recorded with the parameters in force when it ran.                      *)
(***************************************************************************)
EXTENDS Integers, Sequences, FiniteSets, TLC

\* ---------------------------------------------------------------- bounds
MaxRows == 6      \* samples in y_train (x_train has as many, one more or one fewer)
MaxIter == 2      \* maxiter argument of fit
MaxTheta == 2     \* points a scipy optimizer may try: 0..MaxTheta
MaxEvals == 3     \* cost/gradient calls a scipy optimizer makes in one fit
EncRows == 3      \* rows of the label matrices of the encoder specification
EncGroups == 2    \* their columns
EncLabel == 2     \* their labels: 0..EncLabel

\* ------------------------------------------------------ program constants
BatchSize == 5            \* range(0, maxiter, 5) and the [s : s + 5] slices
SaiInit == -99998888      \* rev_y_scale's initial running maximum
ThetaInit == 0            \* circuit.get_parameters() of a fresh circuit

Solvers == {"BFGS", "Nelder-Mead", "Adam", "SGD"}
Costs == {"log_loss", "mse"}

VARIABLES
  solver, cost, do_x_scale, callback,      \* constructor arguments (callback: is one given)
  pc,                                      \* "new", "minimize", "adam", "done", "error",
                                           \* and "encoded", "decoded" (encoder specification)
  x_train, y_train, maxiter,               \* fit's arguments
  enc, scale_y_param, x_scaled, y_scaled,  \* fit's preprocessing
  params,                                  \* the circuit's parameter vector
  opt,                                     \* scipy.optimize.minimize's state
  iter, theta_now,                         \* the Adam loop
  lastEval,                                \* the last cost_func / _cost_func_grad call
  window,                                  \* the last Adam mini-batch: sample indices of x and of y
  calls,                                   \* circuit calls so far: run, update_parameters, backprop
  nStep, cbLog,                            \* Adam steps so far, arguments the callback received
  result, raised,                          \* what fit returned / raised
  dec_row, dec_in, dec_out                 \* a label row, its encoding, its decoding

vars == << solver, cost, do_x_scale, callback, pc, x_train, y_train, maxiter,
           enc, scale_y_param, x_scaled, y_scaled, params, opt, iter, theta_now,
           lastEval, window, calls, nStep, cbLog, result, raised,
           dec_row, dec_in, dec_out >>

\* ---------------------------------------------------------------- helpers
Min(a, b) == IF a < b THEN a ELSE b

\* ceil(a / b) for a >= 0, b > 0
CeilDiv(a, b) == (a + b - 1) \div b

\* Python's s[a:b] on a sequence, 0-based, clipped to the length (0 <= a <= b)
PySlice(s, a, b) == SubSeq(s, a + 1, Min(b, Len(s)))

\* range(n) as 1-based row numbers
RowIndex(m) == [i \in 1..Len(m) |-> i]

Rows(m, idx) == [k \in 1..Len(idx) |-> m[idx[k]]]

\* numpy's m.ravel(): the rows of a matrix, one after the other
Ravel(m) ==
  IF m = << >> THEN << >>
  ELSE [k \in 1..(Len(m) * Len(m[1])) |->
          m[((k - 1) \div Len(m[1])) + 1][((k - 1) % Len(m[1])) + 1]]

RECURSIVE SortedSeq(_)
\* the elements of a finite set of integers in increasing order
SortedSeq(S) ==
  IF S = {} THEN << >>
  ELSE LET m == CHOOSE x \in S : \A y \in S : x <= y
       IN << m >> \o SortedSeq(S \ {m})

\* a label matrix of n rows whose column g cycles through cyc[g]
CycleLabels(n, cyc) ==
  [i \in 1..n |-> [g \in 1..Len(cyc) |-> cyc[g][((i - 1) % Len(cyc[g])) + 1]]]

\* the label columns fit is tried on: one level only, two classes, two classes
\* not numbered from 0, three classes, and two groups of 2 and 3 classes
TrainingCycles ==
  { << << 1 >> >>, << << 0, 1 >> >>, << << 1, 2 >> >>, << << 0, 1, 2 >> >>,
    << << 0, 1 >>, << 0, 1, 2 >> >> }

\* every choice of levels, per column a non-empty subset of 0..maxlabel
LevelCycles(groups, maxlabel) ==
  UNION { [1..g -> { SortedSeq(L) : L \in (SUBSET (0..maxlabel)) \ {{}} }] :
          g \in 1..groups }

\* an input matrix of n samples, as handed to fit
InputMatrix(n) == [scaled |-> FALSE, rows |-> [i \in 1..n |-> i]]

\* ------------------------------------------------ sklearn's OneHotEncoder
\* OneHotEncoder.fit: categories_[g] is the sorted distinct values of column g
OneHotFit(y) ==
  [g \in 1..Len(y[1]) |-> SortedSeq({ y[i][g] : i \in 1..Len(y) })]

RECURSIVE OneHotRow(_, _, _)
\* one row's encoding: per column an indicator over that column's categories
OneHotRow(cats, row, g) ==
  IF g > Len(cats) THEN << >>
  ELSE [c \in 1..Len(cats[g]) |-> IF cats[g][c] = row[g] THEN 1 ELSE 0]
       \o OneHotRow(cats, row, g + 1)

\* OneHotEncoder.transform
OneHotTransform(cats, y) == [i \in 1..Len(y) |-> OneHotRow(cats, y[i], 1)]

\* MinMaxScaler.fit_transform: the same samples, rescaled
MinMaxFitTransform(x) == [scaled |-> TRUE, rows |-> x.rows]

\* ----------------------------------------------------- get_y_scale_param
RECURSIVE YScaleLoop(_, _, _, _, _)
YScaleLoop(cats, g, syurui, syurui_rui, genkaz) ==
  IF g > Len(cats) THEN << syurui, syurui_rui >>
  ELSE YScaleLoop(cats, g + 1,
                  Append(syurui, Len(cats[g])),
                  Append(syurui_rui, genkaz + Len(cats[g])),
                  genkaz + Len(cats[g]))

\* [group sizes, their running sums starting at 0]
get_y_scale_param(cats) == YScaleLoop(cats, 1, << >>, << 0 >>, 0)

\* the one-hot width: the sum of the group sizes
Width(syp) == syp[2][Len(syp[2])]

\* ------------------------------------------------------------ rev_y_scale
RevCmpFlipped(sai, v) == sai > v

\* the comparison that moves the running maximum
RevCmp(sai, v) == sai < v

RECURSIVE ArgMaxLoop(_, _, _, _, _, _)
\* for k in range(size): if sai < row[hid + k]: sai, arg = row[hid + k], k
ArgMaxLoop(row, hid, size, k, sai, arg) ==
  IF k >= size THEN arg
  ELSE IF RevCmp(sai, row[hid + k + 1])
       THEN ArgMaxLoop(row, hid, size, k + 1, row[hid + k + 1], k)
       ELSE ArgMaxLoop(row, hid, size, k + 1, sai, arg)

\* per row and per group, the 0-based position of the first maximum
rev_y_scale(syp, y_inr) ==
  [i \in 1..Len(y_inr) |->
     [j \in 1..Len(syp[1]) |->
        ArgMaxLoop(y_inr[i], syp[2][j], syp[1][j], 0, SaiInit, 0)]]

\* ------------------------------------------------------------ the circuit
\* LearningCircuit's calls, as the classifier issues them
Upd(theta) == [op |-> "update_parameters", arg |-> theta]
Run(x) == [op |-> "run", arg |-> x]
Backprop(x) == [op |-> "backprop", arg |-> x]

\* update_parameters overwrites the parameter vector; run and backprop read it
AdapterStep(p, c) == IF c.op = "update_parameters" THEN c.arg ELSE p

\* the parameter vector after the first i calls of cs, p being the one before
ParamsAfter(cs, p, i) ==
  LET ups == { j \in 1..i : cs[j].op = "update_parameters" }
  IN IF ups = {} THEN p
     ELSE cs[CHOOSE j \in ups : \A k \in ups : k <= j].arg

\* the calls cs in order, each with the parameter vector in force when it ran
ExecSeq(cs, p) ==
  [i \in 1..Len(cs) |->
     [op |-> cs[i].op, arg |-> cs[i].arg,
      params |-> AdapterStep(IF i = 1 THEN p ELSE ParamsAfter(cs, p, i - 1),
                             cs[i])]]

\* ExecSeq of a call list that is built once (the singleton set binds it)
Exec(calllist, p) == CHOOSE t \in { ExecSeq(cs, p) : cs \in {calllist} } : TRUE

EndParams(trace, p) == IF trace = << >> THEN p ELSE trace[Len(trace)].params

CountOp(trace, op) == Cardinality({ i \in DOMAIN trace : trace[i].op = op })

\* _predict_inner: one circuit run per sample (the observables read its state)
PredictInnerCalls(x) == [i \in 1..Len(x.rows) |-> Run(x.rows[i])]

\* --------------------------------------------------------------- cost_func
CostCallsLate(theta, x) == PredictInnerCalls(x) \o << Upd(theta) >>

\* the circuit calls of cost_func, in program order
CostCalls(theta, x) == << Upd(theta) >> \o PredictInnerCalls(x)

\* ypf holds one probability per sample and one-hot position
YpfLen(x) == Len(x.rows) * Width(scale_y_param)

\* cost_func(theta, x, y) with the circuit's parameters being p
cost_func(theta, x, y, p) ==
  IF cost = "log_loss"
  THEN LET ysf == Ravel(y)
           pos == { i \in 1..Len(ysf) : ysf[i] = 1 }
           ok  == \A i \in pos : i <= YpfLen(x)
       IN [fn |-> "cost_func", theta |-> theta, pre |-> p,
           trace |-> Exec(CostCalls(theta, x), p),
           raised |-> IF ok THEN "none" ELSE "IndexError",
           value |-> IF ok
                     THEN << [theta |-> theta, x |-> x, pos |-> pos,
                              div |-> Len(ysf)] >>
                     ELSE << >>]
  ELSE [fn |-> "cost_func", theta |-> theta, pre |-> p, trace |-> << >>,
        raised |-> "NotImplementedError", value |-> << >>]

\* --------------------------------------------------------- _cost_func_grad
\* the circuit calls of _cost_func_grad: y[h] is read before sample h's backprop
GradCalls(theta, x, y) ==
  << Upd(theta) >> \o PredictInnerCalls(x)
  \o [h \in 1..Min(Len(x.rows), Len(y)) |-> Backprop(x.rows[h])]
  \o (IF Len(x.rows) <= Len(y) THEN << Upd(theta) >> ELSE << >>)

cost_func_grad(theta, x, y, p) ==
  LET ok == Len(x.rows) <= Len(y)
  IN [fn |-> "_cost_func_grad", theta |-> theta, pre |-> p,
      trace |-> Exec(GradCalls(theta, x, y), p),
      raised |-> IF ok THEN "none" ELSE "IndexError",
      value |-> IF ok
                THEN << [theta |-> theta, x |-> x,
                         targets |-> SubSeq(y, 1, Len(x.rows)),
                         div |-> Len(x.rows)] >>
                ELSE << >>]

\* what a call of either leaves behind in the circuit and in the history
Observe(e) ==
  /\ params' = EndParams(e.trace, params)
  /\ calls' = [run |-> calls.run + CountOp(e.trace, "run"),
               update_parameters |->
                 calls.update_parameters + CountOp(e.trace, "update_parameters"),
               backprop |-> calls.backprop + CountOp(e.trace, "backprop")]
  /\ lastEval' = e

NoEval == [fn |-> "none", theta |-> ThetaInit, pre |-> ThetaInit,
           trace |-> << >>, raised |-> "none", value |-> << >>]

\* ------------------------------------------------------------------- Init
NoOpt == [x0 |-> ThetaInit, nfev |-> 0, njev |-> 0, fevs |-> {},
          res_x |-> ThetaInit, res_fun |-> << >>]

Blank ==
  /\ pc = "new"
  /\ x_train = InputMatrix(0) /\ y_train = << >> /\ maxiter = 0
  /\ enc = << >> /\ scale_y_param = << << >>, << >> >>
  /\ x_scaled = InputMatrix(0) /\ y_scaled = << >>
  /\ params = ThetaInit
  /\ opt = NoOpt
  /\ iter = 0 /\ theta_now = ThetaInit
  /\ lastEval = NoEval
  /\ window = << >>
  /\ calls = [run |-> 0, update_parameters |-> 0, backprop |-> 0]
  /\ nStep = 0 /\ cbLog = << >>
  /\ result = << >> /\ raised = "none"
  /\ dec_row = << >> /\ dec_in = << >> /\ dec_out = << >>

\* __init__: any configuration, nothing fitted yet
Init ==
  /\ solver \in Solvers
  /\ cost \in Costs
  /\ do_x_scale \in BOOLEAN
  /\ callback \in BOOLEAN
  /\ Blank

config == << solver, cost, do_x_scale, callback >>
encvars == << dec_row, dec_in, dec_out >>

\* -------------------------------------------------------------------- fit
DispatchFallback(s) ==
  IF s = "Nelder-Mead" THEN "Nelder-Mead"
  ELSE IF s = "Adam" THEN "Adam"
  ELSE "BFGS"

\* the if/elif chain on self.solver
Dispatch(s) ==
  IF s = "Nelder-Mead" THEN "Nelder-Mead"
  ELSE IF s = "BFGS" THEN "BFGS"
  ELSE IF s = "Adam" THEN "Adam"
  ELSE "raise"

\* fit up to the solver branch: the encoder, the scaler, theta_init, the dispatch
Fit(n, y, m) ==
  /\ pc = "new"
  /\ LET cats == OneHotFit(y)
         x == InputMatrix(n)
         branch == Dispatch(solver)
     IN /\ x_train' = x
        /\ y_train' = y
        /\ enc' = cats
        /\ y_scaled' = OneHotTransform(cats, y)
        /\ scale_y_param' = get_y_scale_param(cats)
        /\ x_scaled' = IF do_x_scale THEN MinMaxFitTransform(x) ELSE x
        /\ theta_now' = params
        /\ opt' = [NoOpt EXCEPT !.x0 = params, !.res_x = params]
        /\ iter' = 0
        /\ maxiter' = m
        /\ pc' = CASE branch \in {"Nelder-Mead", "BFGS"} -> "minimize"
                   [] branch = "Adam" -> "adam"
                   [] OTHER -> "error"
        /\ raised' = IF branch = "raise" THEN "NotImplementedError" ELSE raised
  /\ UNCHANGED << config, params, lastEval, window, calls, nStep, cbLog, result,
                  encvars >>

\* ------------------------------------------- scipy.optimize.minimize drivers
\* minimize calls fun(x0) first; with jac given, jac(x0) next; then it tries
\* points of its own choosing and keeps the best one it has seen
MinimizeCost(theta) ==
  /\ pc = "minimize"
  /\ opt.nfev + opt.njev < MaxEvals
  /\ opt.nfev = 0 => theta = opt.x0
  /\ (Dispatch(solver) = "BFGS" /\ opt.nfev >= 1) => opt.njev >= 1
  /\ \E e \in { cost_func(theta, x_scaled, y_scaled, params) } :
        /\ Observe(e)
        /\ IF e.raised # "none"
           THEN /\ pc' = "error" /\ raised' = e.raised /\ opt' = opt
           ELSE /\ \E adopt \in BOOLEAN :
                     /\ opt.nfev = 0 => adopt
                     /\ theta \in opt.fevs => ~adopt
                     /\ opt' = [opt EXCEPT
                                  !.nfev = @ + 1,
                                  !.fevs = @ \cup {theta},
                                  !.res_x = IF adopt THEN theta ELSE @,
                                  !.res_fun = IF adopt THEN e.value ELSE @]
                /\ UNCHANGED << pc, raised >>
  /\ UNCHANGED << config, x_train, y_train, maxiter, enc, scale_y_param,
                  x_scaled, y_scaled, iter, theta_now, window, nStep, cbLog,
                  result, encvars >>

\* BFGS asks for the gradient at points whose cost it has evaluated
MinimizeGrad(theta) ==
  /\ pc = "minimize"
  /\ Dispatch(solver) = "BFGS"
  /\ opt.nfev + opt.njev < MaxEvals
  /\ theta \in opt.fevs
  /\ opt.njev = 0 => theta = opt.x0
  /\ \E e \in { cost_func_grad(theta, x_scaled, y_scaled, params) } :
        /\ Observe(e)
        /\ IF e.raised # "none"
           THEN /\ pc' = "error" /\ raised' = e.raised /\ opt' = opt
           ELSE /\ opt' = [opt EXCEPT !.njev = @ + 1]
                /\ UNCHANGED << pc, raised >>
  /\ UNCHANGED << config, x_train, y_train, maxiter, enc, scale_y_param,
                  x_scaled, y_scaled, iter, theta_now, window, nStep, cbLog,
                  result, encvars >>

\* loss = result.fun, theta_opt = result.x, return loss, theta_opt
MinimizeReturn ==
  /\ pc = "minimize"
  /\ opt.nfev >= 1
  /\ Dispatch(solver) = "BFGS" => opt.njev >= 1
  /\ result' = << [loss |-> opt.res_fun, theta_opt |-> opt.res_x] >>
  /\ pc' = "done"
  /\ UNCHANGED << config, x_train, y_train, maxiter, enc, scale_y_param,
                  x_scaled, y_scaled, params, opt, iter, theta_now, lastEval,
                  window, calls, nStep, cbLog, raised, encvars >>

\* ------------------------------------------------------------ the Adam loop
AdamContinuesWhole(i, budget) == i + BatchSize <= budget

\* range(0, maxiter, 5): the loop body runs while iter < maxiter
AdamContinues(i, budget) == i < budget

\* maxiter *= len(x_train): the Adam branch's sample budget
AdamBudget == maxiter * Len(x_train.rows)

\* theta_now -= pr_A / (sqrt(vel / Btx) + pr_ips) * (moment / Bix): the next
\* iterate; moment, vel, Bix and Btx are functions of the gradients so far
AdamUpdate(theta) == theta + 1

\* one pass of the loop body: slice, gradient, update, callback
AdamStep ==
  /\ pc = "adam"
  /\ AdamContinues(iter, AdamBudget)
  /\ LET sx == iter % Len(x_train.rows)
         sy == iter % Len(y_train)
         wx == PySlice(RowIndex(x_scaled.rows), sx, sx + BatchSize)
         wy == PySlice(RowIndex(y_scaled), sy, sy + BatchSize)
         xw == [scaled |-> x_scaled.scaled, rows |-> Rows(x_scaled.rows, wx)]
         yw == Rows(y_scaled, wy)
     IN \E e \in { cost_func_grad(theta_now, xw, yw, params) } :
        /\ Observe(e)
        /\ window' = << [start |-> iter, x |-> wx, y |-> wy] >>
        /\ IF e.raised # "none"
           THEN /\ pc' = "error" /\ raised' = e.raised
                /\ UNCHANGED << theta_now, iter, nStep, cbLog >>
           ELSE /\ theta_now' = AdamUpdate(theta_now)
                /\ cbLog' = IF callback THEN Append(cbLog, theta_now') ELSE cbLog
                /\ iter' = iter + BatchSize
                /\ nStep' = nStep + 1
                /\ UNCHANGED << pc, raised >>
  /\ UNCHANGED << config, x_train, y_train, maxiter, enc, scale_y_param,
                  x_scaled, y_scaled, opt, result, encvars >>

\* after the loop: loss = cost_func(theta_now, x_train, y_train), return
AdamFinish ==
  /\ pc = "adam"
  /\ ~AdamContinues(iter, AdamBudget)
  /\ \E e \in { cost_func(theta_now, x_train, y_train, params) } :
        /\ Observe(e)
        /\ IF e.raised # "none"
           THEN /\ pc' = "error" /\ raised' = e.raised /\ result' = result
           ELSE /\ pc' = "done" /\ raised' = raised
                /\ result' = << [loss |-> e.value, theta_opt |-> theta_now] >>
  /\ UNCHANGED << config, x_train, y_train, maxiter, enc, scale_y_param,
                  x_scaled, y_scaled, opt, iter, theta_now, window, nStep,
                  cbLog, encvars >>

Next ==
  \/ \E n \in 1..MaxRows, d \in {-1, 0, 1}, c \in TrainingCycles, m \in 0..MaxIter :
        n + d >= 1 /\ Fit(n + d, CycleLabels(n, c), m)
  \/ \E theta \in 0..MaxTheta : MinimizeCost(theta)
  \/ \E theta \in 0..MaxTheta : MinimizeGrad(theta)
  \/ MinimizeReturn
  \/ AdamStep
  \/ AdamFinish

Spec == Init /\ [][Next]_vars

\* ------------------------------------------- the Adam driver on its own
\* a model built with solver="Adam"
InitAdam ==
  /\ solver = "Adam"
  /\ cost \in Costs
  /\ do_x_scale \in BOOLEAN
  /\ callback \in BOOLEAN
  /\ Blank

NextAdam ==
  \/ \E n \in 1..MaxRows, d \in {-1, 0, 1}, c \in TrainingCycles, m \in 0..MaxIter :
        n + d >= 1 /\ Fit(n + d, CycleLabels(n, c), m)
  \/ AdamStep
  \/ AdamFinish

\* the loop is single-threaded Python: once entered, it runs until it ends
\* or raises
FairAdam ==
  InitAdam /\ [][NextAdam]_vars /\ WF_vars(AdamStep) /\ WF_vars(AdamFinish)

\* --------------------------------------- the target encoder and decoder
\* a model built with the constructor's defaults, nothing fitted yet
InitEnc ==
  /\ solver = "BFGS" /\ cost = "log_loss" /\ do_x_scale = TRUE /\ callback = FALSE
  /\ Blank

\* the head of fit: enc.fit, enc.transform, get_y_scale_param
EncodeTargets(y) ==
  /\ pc = "new"
  /\ y_train' = y
  /\ enc' = OneHotFit(y)
  /\ y_scaled' = OneHotTransform(enc', y)
  /\ scale_y_param' = get_y_scale_param(enc')
  /\ pc' = "encoded"
  /\ UNCHANGED << config, x_train, maxiter, x_scaled, params, opt, iter,
                  theta_now, lastEval, window, calls, nStep, cbLog, result,
                  raised, encvars >>

\* enc.transform knows the levels it was fitted on, and no others
Encodable(row) ==
  \A g \in 1..Len(enc) : \E c \in 1..Len(enc[g]) : enc[g][c] = row[g]

\* a label row, encoded by the fitted encoder and decoded by rev_y_scale
RoundTrip(row) ==
  /\ pc = "encoded"
  /\ Encodable(row)
  /\ dec_row' = row
  /\ dec_in' = OneHotTransform(enc, << row >>)
  /\ dec_out' = rev_y_scale(scale_y_param, dec_in')
  /\ pc' = "decoded"
  /\ UNCHANGED << config, x_train, y_train, maxiter, enc, scale_y_param,
                  x_scaled, y_scaled, params, opt, iter, theta_now, lastEval,
                  window, calls, nStep, cbLog, result, raised >>

NextEnc ==
  \/ \E n \in 1..EncRows, c \in LevelCycles(EncGroups, EncLabel) :
        EncodeTargets(CycleLabels(n, c))
  \/ \E row \in [1..Len(enc) -> 0..EncLabel] : RoundTrip(row)

SpecEnc == InitEnc /\ [][NextEnc]_vars

\* ------------------------------------------------------------------ claims
NoCircuitWork ==
  calls.run = 0 /\ calls.update_parameters = 0 /\ calls.backprop = 0

\* X and Y have the same number of samples
SameCounts == Len(x_train.rows) = Len(y_train)

\* C1: with a cost kind other than "log_loss", whatever the solver, fit fails
\* before any training work: no circuit run, no update_parameters, no backprop
\* and no optimizer step ever happens, and fit never returns.
C1_UnsupportedCostFailsFast ==
  (cost # "log_loss" /\ SameCounts) =>
    (NoCircuitWork /\ nStep = 0 /\ pc # "done")

\* C2: when fit has returned (loss, theta_opt), the circuit's parameter
\* vector is the returned theta_opt, so that predict runs the circuit at it.
C2_FinalParametersStored ==
  (pc = "done" /\ SameCounts) => params = result[1].theta_opt

\* C3: with a solver name other than BFGS, Nelder-Mead and Adam, fit raises
\* (NotImplementedError) with no circuit run, update_parameters or backprop
\* call before it, and returns no (loss, parameters) pair.
C3_UnknownSolverFailsFast ==
  solver \notin {"BFGS", "Nelder-Mead", "Adam"} =>
    /\ NoCircuitWork /\ nStep = 0
    /\ lastEval = NoEval
    /\ result = << >>
    /\ pc \in {"new", "error"}
    /\ pc = "error" => raised = "NotImplementedError"

C3_Witness ==
  /\ solver \notin {"BFGS", "Nelder-Mead", "Adam"}
  /\ pc = "error" /\ raised = "NotImplementedError"
  /\ y_scaled # << >>

\* the labels of every column of m are class indices: 0 <= m[i][g] < k_g
ClassIndices(m) ==
  \A i \in 1..Len(m) : \A g \in 1..Len(m[i]) :
     0 <= m[i][g] /\ m[i][g] < scale_y_param[1][g]

ShapeMismatch == pc # "new" /\ ~SameCounts

\* C5: when X and Y have different sample counts, fit raises before any cost
\* or gradient evaluation and never returns a (loss, parameters) result.
C5_ShapeMismatchIsFatal ==
  ShapeMismatch => (lastEval = NoEval /\ NoCircuitWork /\ pc # "done")

\* C6: the loss fit returns is the cost at the returned parameters on the
\* preprocessed training data, x_scaled and the one-hot y_scaled.
C6_FinalCostOnScaledData ==
  (pc = "done" /\ SameCounts) =>
    result[1].loss =
      cost_func(result[1].theta_opt, x_scaled, y_scaled, params).value

\* C7: every Adam step takes its gradient over exactly 5 samples, starting at
\* (step offset mod n) and wrapping around modulo n, the same sample indices
\* for the inputs and for the targets.
C7_AdamWindowWraps ==
  (window # << >> /\ SameCounts) =>
    LET w == window[1]
        n == Len(y_train)
    IN /\ w.x = [k \in 1..BatchSize |-> ((w.start + k - 1) % n) + 1]
       /\ w.y = w.x

\* C8: the cost is the mean over samples: the sum of the per-sample losses is
\* divided by the number of samples n, the divisor of the gradient as well.
C8_CostIsMeanOverSamples ==
  (lastEval.value # << >> /\ SameCounts) =>
    lastEval.value[1].div = Len(lastEval.value[1].x.rows)

RECURSIVE Iterate(_)
\* the parameters after k Adam steps
Iterate(k) == IF k = 0 THEN ThetaInit ELSE AdamUpdate(Iterate(k - 1))

AdamOnSamples == solver = "Adam" /\ SameCounts

AdamStepsInv ==
  (AdamOnSamples /\ pc # "new") =>
    LET total == CeilDiv(maxiter * Len(y_train), BatchSize)
    IN /\ nStep <= total
       /\ pc \in {"adam", "done", "error"}
       /\ pc \in {"done", "error"} => nStep = total
       /\ theta_now = Iterate(nStep)
       /\ cbLog = IF callback THEN [k \in 1..nStep |-> Iterate(k)] ELSE << >>
       /\ nStep = 0 => (theta_now = ThetaInit /\ cbLog = << >>)

\* C9: the Adam driver on n samples with maxiter >= 0 always leaves its loop,
\* and only by exhausting the budget: after exactly ceil(maxiter * n / 5)
\* steps; a callback is called once per step, after the update, with the
\* updated parameters; with zero steps the parameters are unchanged and the
\* callback is never called.
C9_AdamExhaustsBudget ==
  /\ []AdamStepsInv
  /\ (AdamOnSamples /\ pc = "adam") ~> (pc \in {"done", "error"})

C9_Witness ==
  /\ AdamOnSamples /\ pc = "done" /\ callback
  /\ maxiter = 2 /\ Len(y_train) = 6
  /\ nStep = 3 /\ Len(cbLog) = 3 /\ cbLog[3] = result[1].theta_opt

\* C10: every cost and every gradient evaluation for theta calls
\* update_parameters(theta) before any circuit run or backprop of that
\* evaluation, so each of them runs with the parameter vector equal to theta.
C10_UpdateBeforeUse ==
  /\ \A i \in DOMAIN lastEval.trace :
        lastEval.trace[i].op \in {"run", "backprop"}
          => lastEval.trace[i].params = lastEval.theta
  /\ lastEval.trace # << >> =>
        /\ lastEval.trace[1].op = "update_parameters"
        /\ lastEval.trace[1].arg = lastEval.theta

C10_Witness ==
  /\ lastEval.pre # lastEval.theta
  /\ CountOp(lastEval.trace, "run") > 0
  /\ CountOp(lastEval.trace, "backprop") > 0

====
